---- MODULE Spec2Model ----
(***************************************************************************)
(* State-machine model of the front-end bridge layer of                    *)
(* auroraview-dcc-shelves: the React hooks that talk to the host-injected  *)
(* object window.auroraview (useShelfIPC, useUserTools, useWindowDrag,     *)
(* useWarmupState) and the App effect that turns a launch result into a    *)
(* toast.  Timers, promises and events are modelled as pending work that   *)
(* the JavaScript event loop may run in any order.                         *)
(***************************************************************************)
EXTENDS Integers, Sequences, FiniteSets, TLC

(***************************************************************************)
(* Bounds of the model (not program constants).                            *)
(***************************************************************************)
\* auroraview-api-ready events the backend dispatches
MaxApiReady == 2
\* invocations of window.__reloadShelfConfig by the backend
MaxReloads == 1
\* how many times the settings window is asked for
MaxOpens == 3
\* how many times the dialog's onSave is called
MaxSaves == 2

(***************************************************************************)
(* Program constants.                                                      *)
(***************************************************************************)
\* useShelfIPC.ts:386  const maxAttempts = 50
maxAttempts == 50

Null == "null"

\* Optional values (undefined | T) are sequences of length 0 or 1.
None == << >>
Some(x) == << x >>
IsSome(m) == Len(m) = 1
Get(m) == m[1]

(***************************************************************************)
(* The bridge object window.auroraview: the set of members present.        *)
(***************************************************************************)
IPCMembers == {"api", "api.get_config", "api.launch_tool", "send_event", "on"}

ApiMethods == {"api.get_config", "api.launch_tool", "api.get_user_tools",
               "api.delete_user_tool", "api.start_drag"}
AllMembers == IPCMembers \cup ApiMethods

\* A member of the api namespace is only there when the namespace is.
WellFormedBridge(b) == \A m \in b : (m \in ApiMethods) => "api" \in b

hasApiMode(b) == "api.get_config" \in b
hasEventMode(b) == "send_event" \in b

(***************************************************************************)
(* Configuration payloads (ConfigResponse) the backend may deliver.        *)
(***************************************************************************)
DEFAULT_BANNER == [title |-> "Toolbox", subtitle |-> "Production Tools & Scripts"]

Btn(id) == [id |-> id, category |-> "", category_zh |-> ""]
Shelf(name, name_zh, buttons) == [name |-> name, name_zh |-> name_zh, buttons |-> buttons]

CfgFull ==
    [shelves |-> Some(<< Shelf("Modeling", "JianMo", << Btn("b1"), Btn("b2") >>),
                         Shelf("Rigging", "", << Btn("b3") >>) >>),
     banner |-> Some([title |-> "Studio"]),
     currentHost |-> Some("maya")]
CfgPlain ==
    [shelves |-> Some(<< Shelf("Tools", "", << Btn("b4") >>) >>),
     banner |-> None,
     currentHost |-> None]
CfgOther ==
    [shelves |-> Some(<< Shelf("FX", "TeXiao", << Btn("b1") >>) >>),
     banner |-> Some([title |-> "FX", subtitle |-> "Team"]),
     currentHost |-> Some("houdini")]
CfgNoShelves ==
    [shelves |-> None,
     banner |-> Some([title |-> "Studio"]),
     currentHost |-> Some("maya")]
Payloads == {CfgFull, CfgPlain, CfgOther, CfgNoShelves}

\* The static mock list imported from ../data/mockData.
TOOLS_DATA ==
    << [id |-> "mock1", category |-> "Mock", category_zh |-> ""],
       [id |-> "mock2", category |-> "Mock", category_zh |-> ""] >>

RECURSIVE Flatten(_)
Flatten(ss) ==
    IF ss = << >> THEN << >>
    ELSE LET shelf == Head(ss)
         IN  [i \in 1..Len(shelf.buttons) |->
                 [shelf.buttons[i] EXCEPT !.category = shelf.name,
                                          !.category_zh = shelf.name_zh]]
             \o Flatten(Tail(ss))

\* parseConfigToTools: only defined on a payload that has a shelves list
\* (iterating undefined throws a TypeError).
parseConfigToTools(config) == Flatten(Get(config.shelves))

\* { ...DEFAULT_BANNER, ...config.banner }
MergeBanner(cb) == [k \in {"title", "subtitle"} |->
    IF k \in DOMAIN cb THEN cb[k] ELSE DEFAULT_BANNER[k]]

LaunchIds == {"t1", "t2"}

VARIABLES
    \* environment
    isDev, bridge, apiReadyEvents, reloadCalls,
    \* useShelfIPC state
    phase, isConnected, tools, banner, currentHost, launchResult, error, mode,
    handlersRef, bridgeHandlers, windowListeners, reloadFn, cleanup,
    attempts, pollActive, requestTimer, configRequests,
    getConfigCalls, inflight,
    launchPending, launchEvents, launchRejected, toast,
    \* what the front end did to the bridge / what escaped a handler
    calls, uncaught,
    \* what the backend delivered to the mounted hook
    lastCfg, lastBanner, lastHost, invalidDelivered,
    \* useUserTools
    utPhase, retryCount, isLoaded, utTimers, utInflight, isLoading, utError,
    userTools, callApiLog,
    \* useWindowDrag
    isDragging, dragPending, dragCalls,
    \* useWarmupState
    warmupPhase, warmupTimer, warmupHandlers

VARIABLES
    \* i18n: the three detection sources, the language detected at init and
    \* the sources it saw, the active language
    lngQuery, lngStored, lngNavigator, i18nPhase, language, detectedLng, storedAtInit

VARIABLES
    \* useLocalizedTool / useLocalizedTools: the tool, the language it was
    \* rendered for, what each hook returned
    locTool, renderedLng, localized, localizedBatch

VARIABLES
    \* openSettingsSmart: where the call stands, what it returned, whether its
    \* promise rejected, what happened to each method in this call, and how
    \* often create_window and window.open were invoked
    smartPhase, smartResult, smartRejected, nativeTried, popupTried,
    nativeCalls, popupCalls

VARIABLES
    \* App: the tools and host it got from useShelfIPC, the search box, and
    \* the list it displays
    appTools, appHost, searchQuery, filteredTools

VARIABLES
    \* CreateToolDialog: shown or not, the two required fields, the error
    \* line, the saving flag, the payload onSave is working on, and every
    \* payload onSave was called with
    dlgOpen, dlgName, dlgPath, dlgError, dlgSaving, savePending, onSaveCalls

VARIABLES
    \* useZoom: not yet mounted or mounted, the hook's state, the zoom applied
    \* to document.body, the record under localStorage key
    \* 'auroraview-zoom-settings', and the screen the window is on
    zoomPhase, zoom, autoZoomEnabled, screenInfo, bodyZoom, zoomStorage, windowScreen

i18nVars == << lngQuery, lngStored, lngNavigator, i18nPhase, language, detectedLng,
              storedAtInit >>
locVars == << locTool, renderedLng, localized, localizedBatch >>
filterVars == << appTools, appHost, searchQuery, filteredTools >>
dialogVars == << dlgOpen, dlgName, dlgPath, dlgError, dlgSaving, savePending,
                onSaveCalls >>
zoomVars == << zoomPhase, zoom, autoZoomEnabled, screenInfo, bodyZoom, zoomStorage,
              windowScreen >>
settingsVars == << smartPhase, smartResult, smartRejected, nativeTried, popupTried,
                  nativeCalls, popupCalls >>

uiVars == << i18nVars, locVars, settingsVars, filterVars, dialogVars, zoomVars >>
envVars == << isDev, bridge, apiReadyEvents, reloadCalls >>
ipcState == << isConnected, tools, banner, currentHost, error, mode >>
ipcWiring == << handlersRef, bridgeHandlers, windowListeners, reloadFn, cleanup >>
ipcPoll == << attempts, pollActive >>
ipcEvent == << requestTimer, configRequests >>
ipcApi == << getConfigCalls, inflight >>
launchVars == << launchResult, launchPending, launchEvents, launchRejected, toast >>
histVars == << lastCfg, lastBanner, lastHost, invalidDelivered >>
utVars == << utPhase, retryCount, isLoaded, utTimers, utInflight, isLoading, utError,
            userTools, callApiLog >>
dragVars == << isDragging, dragPending, dragCalls >>
warmupVars == << warmupPhase, warmupTimer, warmupHandlers >>
ipcVars == << phase, ipcState, ipcWiring, ipcPoll, ipcEvent, ipcApi, launchVars,
             calls, uncaught, histVars >>
hookVars == << envVars, ipcVars, utVars, dragVars, warmupVars >>
vars == << envVars, ipcVars, utVars, dragVars, warmupVars, uiVars >>
notI18n == << hookVars, locVars, settingsVars, filterVars, dialogVars, zoomVars >>
notLoc == << hookVars, settingsVars, filterVars, dialogVars, zoomVars >>
notSettings == << hookVars, i18nVars, locVars, filterVars, dialogVars, zoomVars >>
notFilter == << hookVars, i18nVars, locVars, settingsVars, dialogVars, zoomVars >>
notDialog == << hookVars, i18nVars, locVars, settingsVars, filterVars, zoomVars >>
notZoom == << hookVars, i18nVars, locVars, settingsVars, filterVars, dialogVars >>

InitIPC ==
    /\ phase = "init"
    /\ isConnected = FALSE
    /\ tools = << >>
    /\ banner = DEFAULT_BANNER
    /\ currentHost = "standalone"
    /\ launchResult = None
    /\ error = Null
    /\ mode = "mock"
    /\ handlersRef = {}
    /\ bridgeHandlers = {}
    /\ windowListeners = {}
    /\ reloadFn = FALSE
    /\ cleanup = "none"
    /\ attempts = 0
    /\ pollActive = FALSE
    /\ requestTimer = FALSE
    /\ configRequests = 0
    /\ getConfigCalls = 0
    /\ inflight = 0
    /\ launchPending = {}
    /\ launchEvents = {}
    /\ launchRejected = FALSE
    /\ toast = None
    /\ calls = {}
    /\ uncaught = FALSE
    /\ lastCfg = None
    /\ lastBanner = None
    /\ lastHost = None
    /\ invalidDelivered = FALSE

InitUserTools ==
    /\ utPhase = "init"
    /\ retryCount = 0
    /\ isLoaded = FALSE
    /\ utTimers = 0
    /\ utInflight = 0
    /\ isLoading = TRUE
    /\ utError = Null
    /\ userTools = << >>
    /\ callApiLog = {}

InitWindowDrag ==
    /\ isDragging = FALSE
    /\ dragPending = FALSE
    /\ dragCalls = {}

InitWarmup ==
    /\ warmupPhase = "init"
    /\ warmupTimer = FALSE
    /\ warmupHandlers = 0

InitHooks ==
    /\ apiReadyEvents = 0
    /\ reloadCalls = 0
    /\ InitIPC
    /\ InitUserTools
    /\ InitWindowDrag
    /\ InitWarmup

\* i18n before the module is loaded, with nothing to detect from.
I18nIdle ==
    /\ lngQuery = None
    /\ lngStored = None
    /\ lngNavigator = << "en" >>
    /\ i18nPhase = "init"
    /\ language = Null
    /\ detectedLng = Null
    /\ storedAtInit = None

NothingLocalized == [name |-> "", description |-> "", category |-> ""]

\* Nothing rendered yet.
LocalizedIdle ==
    /\ locTool = None
    /\ renderedLng = "unrendered"
    /\ localized = NothingLocalized
    /\ localizedBatch = << >>

\* openSettingsSmart not called yet.
SettingsIdle ==
    /\ smartPhase = "idle"
    /\ smartResult = None
    /\ smartRejected = FALSE
    /\ nativeTried = "no"
    /\ popupTried = "no"
    /\ nativeCalls = 0
    /\ popupCalls = 0

\* The App before any configuration arrived.
FilterIdle ==
    /\ appTools = << >>
    /\ appHost = "standalone"
    /\ searchQuery = << >>
    /\ filteredTools = << >>

\* CreateToolDialog as constructed: closed, empty form.
DialogIdle ==
    /\ dlgOpen = FALSE
    /\ dlgName = << >>
    /\ dlgPath = << >>
    /\ dlgError = Null
    /\ dlgSaving = FALSE
    /\ savePending = None
    /\ onSaveCalls = << >>

\* useState(1.0), useState(true), useState(null); nothing stored yet.  Zoom
\* levels are counted in hundredths (100 = 100%).
DefaultScreen == [width |-> 1920, height |-> 1080, devicePixelRatio |-> 10]
ZoomIdle ==
    /\ zoomPhase = "init"
    /\ zoom = 100
    /\ autoZoomEnabled = TRUE
    /\ screenInfo = None
    /\ bodyZoom = 100
    /\ zoomStorage = None
    /\ windowScreen = DefaultScreen

InitUI ==
    /\ I18nIdle
    /\ LocalizedIdle
    /\ SettingsIdle
    /\ FilterIdle
    /\ DialogIdle
    /\ ZoomIdle

\* Hooks not mounted, no bridge: the state the UI components are studied in.
HooksIdle ==
    /\ isDev = FALSE
    /\ bridge = {}
    /\ InitHooks

\* The bridge as useShelfIPC sees it.
Init ==
    /\ isDev \in BOOLEAN
    /\ bridge \in {b \in SUBSET IPCMembers : WellFormedBridge(b)}
    /\ InitHooks
    /\ InitUI

\* The bridge with the members the other hooks look for as well.
InitAll ==
    /\ isDev \in BOOLEAN
    /\ bridge \in {b \in SUBSET AllMembers : WellFormedBridge(b)}
    /\ InitHooks
    /\ InitUI

(***************************************************************************)
(* useShelfIPC: helpers.                                                   *)
(***************************************************************************)
EventNames == {"config_response", "launch_result", "config_updated"}
IpcApiReadyListener == "useShelfIPC:auroraview-api-ready"

ErrTimeout == "AuroraView not available after timeout"
ErrNoGetConfig == "get_config method not available"
ErrInvalidConfig == "Invalid config structure received"
ErrGetConfigRejected == "Error: get_config rejected"

\* The if-chain of the mount effect: which branch the hook takes.
SelectMode_eventFirst(b, dev) ==
    IF hasEventMode(b) THEN "event"
    ELSE IF hasApiMode(b) THEN "api"
    ELSE IF dev THEN "mock"
    ELSE "poll"
SelectMode_alwaysPoll(b, dev) ==
    IF hasApiMode(b) THEN "api"
    ELSE IF hasEventMode(b) THEN "event"
    ELSE "poll"
SelectMode(b, dev) ==
    IF hasApiMode(b) THEN "api"
    ELSE IF hasEventMode(b) THEN "event"
    ELSE IF dev THEN "mock"
    ELSE "poll"

\* loadConfigViaApi up to its await: "skip" (no api namespace), "nomethod"
\* (get_config is not a function) or "call" (get_config() is called).
LoadOutcome(b) ==
    IF "api" \notin b THEN "skip"
    ELSE IF "api.get_config" \notin b THEN "nomethod"
    ELSE "call"

loadConfigViaApi ==
    LET call == LoadOutcome(bridge) = "call"
    IN  /\ getConfigCalls' = IF call THEN getConfigCalls + 1 ELSE getConfigCalls
        /\ inflight' = IF call THEN inflight + 1 ELSE inflight
        /\ calls' = IF call THEN calls \cup {[method |-> "api.get_config", present |-> TRUE]}
                    ELSE calls

ErrorAfterLoad(e) == IF LoadOutcome(bridge) = "nomethod" THEN ErrNoGetConfig ELSE e

\* A state setter of an unmounted component is a no-op.
Mounted == phase = "mounted"

(***************************************************************************)
(* useShelfIPC: the mount effect, the poll, the cleanup.                   *)
(***************************************************************************)
Mount ==
    /\ phase = "init"
    /\ phase' = "mounted"
    /\ LET sel == SelectMode(bridge, isDev)
       IN  /\ mode' = IF sel \in {"api", "event"} THEN sel ELSE "mock"
           /\ isConnected' = (sel \in {"api", "event"})
           /\ tools' = IF sel = "mock" THEN TOOLS_DATA ELSE tools
           /\ IF sel = "api" THEN loadConfigViaApi
              ELSE UNCHANGED << getConfigCalls, inflight, calls >>
           /\ handlersRef' = IF sel = "event" THEN EventNames ELSE handlersRef
           /\ bridgeHandlers' = IF sel = "event" /\ "on" \in bridge
                                THEN EventNames ELSE bridgeHandlers
           /\ requestTimer' = (sel = "event")
           /\ IF sel = "poll"
              THEN /\ pollActive' = TRUE
                   /\ attempts' = 0
                   /\ cleanup' = "poll"
                   /\ UNCHANGED << error, windowListeners, reloadFn >>
              ELSE /\ error' = Null
                   /\ windowListeners' = windowListeners \cup {IpcApiReadyListener}
                   /\ reloadFn' = TRUE
                   /\ cleanup' = "full"
                   /\ UNCHANGED << attempts, pollActive >>
    /\ UNCHANGED << envVars, banner, currentHost, configRequests, launchVars,
                    uncaught, histVars,
                    utVars, dragVars, warmupVars, uiVars >>

PollGivesUp(n) == n >= maxAttempts

pollForAuroraView ==
    /\ pollActive
    /\ attempts' = attempts + 1
    /\ IF hasApiMode(bridge)
       THEN /\ pollActive' = FALSE
            /\ mode' = "api"
            /\ isConnected' = TRUE
            /\ loadConfigViaApi
            /\ error' = ErrorAfterLoad(error)
            /\ UNCHANGED << handlersRef, bridgeHandlers, requestTimer >>
       ELSE IF hasEventMode(bridge)
       THEN /\ pollActive' = FALSE
            /\ mode' = "event"
            /\ isConnected' = TRUE
            /\ handlersRef' = handlersRef \cup {"config_response"}
            /\ bridgeHandlers' = IF "on" \in bridge
                                 THEN bridgeHandlers \cup {"config_response"}
                                 ELSE bridgeHandlers
            /\ requestTimer' = TRUE
            /\ UNCHANGED << getConfigCalls, inflight, calls, error >>
       ELSE IF PollGivesUp(attempts + 1)
       THEN /\ pollActive' = FALSE
            /\ error' = ErrTimeout
            /\ UNCHANGED << mode, isConnected, handlersRef, bridgeHandlers,
                            requestTimer, getConfigCalls, inflight, calls >>
       ELSE UNCHANGED << pollActive, mode, isConnected, handlersRef, bridgeHandlers,
                         requestTimer, getConfigCalls, inflight, calls, error >>
    /\ UNCHANGED << envVars, phase, tools, banner, currentHost, windowListeners,
                    reloadFn, cleanup, configRequests, launchVars, uncaught, histVars,
                    utVars, dragVars, warmupVars, uiVars >>

\* What the cleanup returned by the effect leaves registered on the bridge.
\* The bridge member "on" stands for the on/off pair.
HandlersAfterCleanup(kind, registered, ref, b) ==
    IF kind = "full" /\ "on" \in b THEN registered \ ref ELSE registered

Unmount ==
    /\ phase = "mounted"
    /\ phase' = "unmounted"
    /\ bridgeHandlers' = HandlersAfterCleanup(cleanup, bridgeHandlers, handlersRef, bridge)
    /\ IF cleanup = "poll"
       THEN /\ pollActive' = FALSE
            /\ UNCHANGED << windowListeners, reloadFn >>
       ELSE /\ windowListeners' = windowListeners \ {IpcApiReadyListener}
            /\ reloadFn' = FALSE
            /\ UNCHANGED pollActive
    /\ UNCHANGED << envVars, ipcState, handlersRef, cleanup, attempts, ipcEvent,
                    ipcApi, launchVars, calls, uncaught, histVars,
                    utVars, dragVars, warmupVars, uiVars >>

(***************************************************************************)
(* useUserTools: loadTools, shared by the mount effect, its retry timers   *)
(* and the auroraview-api-ready listener.                                  *)
(***************************************************************************)
\* useUserTools.ts:87  const maxRetries = 50
maxRetries == 50
UtApiReadyListener == "useUserTools:auroraview-api-ready"

\* callApi: "no_api" and "not_found" throw before anything is called.
callApi(b, method) ==
    IF "api" \notin b THEN "no_api"
    ELSE IF method \notin b THEN "not_found"
    ELSE "called"

\* Whether a failed wait schedules another setTimeout(loadTools, 100).
SchedulesRetry_always(n) == TRUE
SchedulesRetry(n) == n < maxRetries

\* mounted: whether the component's state setters still take effect;
\* pending: the timers still pending when loadTools starts.
loadTools(mounted, pending) ==
    IF isLoaded
    THEN /\ utTimers' = pending
         /\ UNCHANGED << retryCount, utInflight, isLoading, utError, callApiLog >>
    ELSE IF ~("api" \in bridge /\ "api.get_user_tools" \in bridge)
    THEN /\ retryCount' = retryCount + 1
         /\ utTimers' = IF SchedulesRetry(retryCount + 1) THEN pending + 1 ELSE pending
         \* the finally block runs on both returns
         /\ isLoading' = IF mounted THEN FALSE ELSE isLoading
         /\ UNCHANGED << utInflight, utError, callApiLog >>
    ELSE \* callApi('get_user_tools'): its checks pass, the call is awaited
         /\ utTimers' = pending
         /\ utInflight' = utInflight + 1
         /\ callApiLog' = callApiLog \cup
                {[method |-> "api.get_user_tools",
                  present |-> callApi(bridge, "api.get_user_tools") = "called"]}
         /\ UNCHANGED << retryCount, isLoading, utError >>

(***************************************************************************)
(* The host: members appear on window.auroraview, the backend announces    *)
(* its API, calls window.__reloadShelfConfig, answers get_config.          *)
(***************************************************************************)
BridgeInject(m) ==
    /\ m \notin bridge
    /\ WellFormedBridge(bridge \cup {m})
    /\ bridge' = bridge \cup {m}
    /\ UNCHANGED << isDev, apiReadyEvents, reloadCalls, phase, ipcState, ipcWiring,
                    ipcPoll, ipcEvent, ipcApi, launchVars, calls, uncaught, histVars,
                    utVars, dragVars, warmupVars, uiVars >>

\* handleApiReady of useShelfIPC
handleApiReady(b) == hasApiMode(b)

ApiReadyEvent ==
    /\ apiReadyEvents < MaxApiReady
    /\ apiReadyEvents' = apiReadyEvents + 1
    /\ IF IpcApiReadyListener \in windowListeners /\ handleApiReady(bridge)
       THEN loadConfigViaApi /\ error' = ErrorAfterLoad(error)
       ELSE UNCHANGED << getConfigCalls, inflight, calls, error >>
    /\ IF UtApiReadyListener \in windowListeners
       THEN loadTools(utPhase = "mounted", utTimers)
            /\ UNCHANGED << utPhase, isLoaded, userTools >>
       ELSE UNCHANGED utVars
    /\ UNCHANGED << isDev, bridge, reloadCalls, phase, isConnected, tools, banner,
                    currentHost, mode, ipcWiring, ipcPoll, ipcEvent, launchVars,
                    uncaught, histVars,
                    dragVars, warmupVars, uiVars >>

reloadShelfConfig ==
    /\ reloadFn
    /\ reloadCalls < MaxReloads
    /\ reloadCalls' = reloadCalls + 1
    /\ loadConfigViaApi
    /\ error' = ErrorAfterLoad(error)
    /\ UNCHANGED << isDev, bridge, apiReadyEvents, phase, isConnected, tools, banner,
                    currentHost, mode, ipcWiring, ipcPoll, ipcEvent, launchVars,
                    uncaught, histVars,
                    utVars, dragVars, warmupVars, uiVars >>

\* The state a valid configuration leaves (lines 206-218, 334-340, 354-360,
\* 408-410): tools replaced, banner and host replaced only when provided.
BannerAfter_reset(cur, config) ==
    IF IsSome(config.banner) THEN MergeBanner(Get(config.banner)) ELSE DEFAULT_BANNER
BannerAfter(cur, config) ==
    IF IsSome(config.banner) THEN MergeBanner(Get(config.banner)) ELSE cur
HostAfter(cur, config) ==
    IF IsSome(config.currentHost) THEN Get(config.currentHost) ELSE cur

ApplyConfig(config) ==
    /\ tools' = parseConfigToTools(config)
    /\ banner' = BannerAfter(banner, config)
    /\ currentHost' = HostAfter(currentHost, config)
    /\ lastCfg' = Some(config)
    /\ lastBanner' = IF IsSome(config.banner) THEN config.banner ELSE lastBanner
    /\ lastHost' = IF IsSome(config.currentHost) THEN config.currentHost ELSE lastHost

\* loadConfigViaApi after its await: `config && config.shelves`
ApiConfigIsValid(config) == IsSome(config.shelves)

ApiConfigResolve(config) ==
    /\ inflight > 0
    /\ inflight' = inflight - 1
    /\ IF ~Mounted
       THEN UNCHANGED << tools, banner, currentHost, error, histVars >>
       ELSE IF ApiConfigIsValid(config)
       THEN /\ IF IsSome(config.shelves)
               THEN ApplyConfig(config) /\ UNCHANGED << error, invalidDelivered >>
               ELSE \* parseConfigToTools throws inside the try: caught
                    /\ error' = "TypeError: config.shelves is not iterable"
                    /\ invalidDelivered' = TRUE
                    /\ UNCHANGED << tools, banner, currentHost, lastCfg, lastBanner,
                                    lastHost >>
       ELSE /\ error' = ErrInvalidConfig
            /\ invalidDelivered' = TRUE
            /\ UNCHANGED << tools, banner, currentHost, lastCfg, lastBanner, lastHost >>
    /\ UNCHANGED << envVars, phase, isConnected, mode, ipcWiring, ipcPoll, ipcEvent,
                    getConfigCalls, launchVars, calls, uncaught,
                    utVars, dragVars, warmupVars, uiVars >>

ApiConfigReject ==
    /\ inflight > 0
    /\ inflight' = inflight - 1
    /\ error' = IF Mounted THEN ErrGetConfigRejected ELSE error
    /\ UNCHANGED << envVars, phase, isConnected, tools, banner, currentHost, mode,
                    ipcWiring, ipcPoll, ipcEvent, getConfigCalls, launchVars, calls,
                    uncaught, histVars,
                    utVars, dragVars, warmupVars, uiVars >>

(***************************************************************************)
(* Event mode: the delayed requestConfig and the config events.            *)
(***************************************************************************)
requestConfig ==
    /\ requestTimer
    /\ requestTimer' = FALSE
    /\ configRequests' = IF "send_event" \in bridge THEN 1 ELSE configRequests
    /\ UNCHANGED << envVars, phase, ipcState, ipcWiring, ipcPoll, ipcApi, launchVars,
                    calls, uncaught, histVars,
                    utVars, dragVars, warmupVars, uiVars >>

\* The configResponse / configUpdated handlers: the payload is used unchecked.
HandleConfigEvent(config) ==
    IF IsSome(config.shelves)
    THEN /\ IF Mounted THEN ApplyConfig(config) /\ UNCHANGED invalidDelivered
            ELSE UNCHANGED << tools, banner, currentHost, histVars >>
         /\ UNCHANGED uncaught
    ELSE \* for (const shelf of undefined): a TypeError leaves the handler
         /\ uncaught' = TRUE
         /\ invalidDelivered' = (invalidDelivered \/ Mounted)
         /\ UNCHANGED << tools, banner, currentHost, lastCfg, lastBanner, lastHost >>

BackendConfigResponse(config) ==
    /\ configRequests > 0
    /\ configRequests' = configRequests - 1
    /\ IF "config_response" \in bridgeHandlers
       THEN HandleConfigEvent(config)
       ELSE UNCHANGED << tools, banner, currentHost, histVars, uncaught >>
    /\ UNCHANGED << envVars, phase, isConnected, error, mode, ipcWiring, ipcPoll,
                    requestTimer, ipcApi, launchVars, calls,
                    utVars, dragVars, warmupVars, uiVars >>

BackendConfigUpdated(config) ==
    /\ hasEventMode(bridge)
    /\ IF "config_updated" \in bridgeHandlers
       THEN HandleConfigEvent(config)
       ELSE UNCHANGED << tools, banner, currentHost, histVars, uncaught >>
    /\ UNCHANGED << envVars, phase, isConnected, error, mode, ipcWiring, ipcPoll,
                    ipcEvent, ipcApi, launchVars, calls,
                    utVars, dragVars, warmupVars, uiVars >>

(***************************************************************************)
(* launchTool, the launch_result event, and the App effect that shows the  *)
(* result as a toast.                                                      *)
(***************************************************************************)
LaunchOutcomes == {"success", "failure", "javascript_ok", "javascript_throws",
                   "rejects", "undefined"}

Failure(message, buttonId) == [success |-> FALSE, message |-> message, buttonId |-> buttonId]
Success(message, buttonId) == [success |-> TRUE, message |-> message, buttonId |-> buttonId]

\* launchTool after `await api.launch_tool(...)` settles with outcome o:
\* the launchResult it sets (None: none set) and whether its promise rejects.
AfterLaunch_uncaught(buttonId, o) ==
    CASE o = "success" -> [result |-> Some(Success("launched", buttonId)), rejects |-> FALSE]
      [] o = "javascript_ok" -> [result |-> Some(Success("launched", buttonId)), rejects |-> FALSE]
      [] o = "failure" -> [result |-> Some(Failure("backend failure", buttonId)), rejects |-> FALSE]
      [] OTHER -> [result |-> None, rejects |-> TRUE]
AfterLaunch(buttonId, o) ==
    CASE o = "success" -> [result |-> Some(Success("launched", buttonId)), rejects |-> FALSE]
      [] o = "javascript_ok" -> [result |-> Some(Success("launched", buttonId)), rejects |-> FALSE]
      [] o = "failure" -> [result |-> Some(Failure("backend failure", buttonId)), rejects |-> FALSE]
      [] o = "javascript_throws" ->
            [result |-> Some(Failure("JavaScript error", buttonId)), rejects |-> FALSE]
      [] o = "rejects" -> [result |-> Some(Failure("Error", buttonId)), rejects |-> FALSE]
      [] o = "undefined" -> [result |-> Some(Failure("TypeError", buttonId)), rejects |-> FALSE]

\* Which branch launchTool takes.
LaunchBranch_mockInProduction(b, dev) ==
    IF "api" \in b THEN "api"
    ELSE IF "send_event" \in b THEN "event"
    ELSE "mock"
LaunchBranch(b, dev) ==
    IF "api" \in b THEN "api"
    ELSE IF "send_event" \in b THEN "event"
    ELSE IF dev THEN "mock"
    ELSE "none"

SetLaunchResult(r) == launchResult' = IF Mounted /\ IsSome(r) THEN r ELSE launchResult

launchTool(buttonId) ==
    /\ Mounted
    /\ buttonId \notin launchPending
    /\ buttonId \notin launchEvents
    /\ LET br == LaunchBranch(bridge, isDev)
       IN  /\ IF br = "api"
              THEN /\ calls' = calls \cup {[method |-> "api.launch_tool",
                                            present |-> "api.launch_tool" \in bridge]}
                   /\ IF "api.launch_tool" \in bridge
                      THEN /\ launchPending' = launchPending \cup {buttonId}
                           /\ UNCHANGED << launchResult, launchRejected >>
                      ELSE \* calling undefined throws inside the try block
                           LET a == AfterLaunch(buttonId, "undefined")
                           IN  /\ SetLaunchResult(a.result)
                               /\ launchRejected' = (launchRejected \/ a.rejects)
                               /\ UNCHANGED launchPending
              ELSE UNCHANGED << calls, launchPending, launchRejected >>
           /\ launchEvents' = IF br = "event" THEN launchEvents \cup {buttonId}
                              ELSE launchEvents
           /\ IF br = "mock"
              THEN launchResult' = Some(Success("[Mock] launched", buttonId))
              ELSE IF br = "api" THEN TRUE ELSE UNCHANGED launchResult
    /\ UNCHANGED << envVars, phase, ipcState, ipcWiring, ipcPoll, ipcEvent, ipcApi,
                    toast, uncaught, histVars,
                    utVars, dragVars, warmupVars, uiVars >>

LaunchSettle(buttonId, o) ==
    /\ buttonId \in launchPending
    /\ launchPending' = launchPending \ {buttonId}
    /\ LET a == AfterLaunch(buttonId, o)
       IN  /\ SetLaunchResult(a.result)
           /\ launchRejected' = (launchRejected \/ a.rejects)
    /\ UNCHANGED << envVars, phase, ipcState, ipcWiring, ipcPoll, ipcEvent, ipcApi,
                    launchEvents, toast, calls, uncaught, histVars,
                    utVars, dragVars, warmupVars, uiVars >>

\* The backend answers a launch_tool event with a launch_result event.
BackendLaunchResult(buttonId, ok) ==
    /\ buttonId \in launchEvents
    /\ launchEvents' = launchEvents \ {buttonId}
    /\ launchResult' =
          IF "launch_result" \in bridgeHandlers /\ Mounted
          THEN Some([success |-> ok, message |-> "backend", buttonId |-> buttonId])
          ELSE launchResult
    /\ UNCHANGED << envVars, phase, ipcState, ipcWiring, ipcPoll, ipcEvent, ipcApi,
                    launchPending, launchRejected, toast, calls, uncaught, histVars,
                    utVars, dragVars, warmupVars, uiVars >>

\* App.tsx: if (launchResult) { setToast(launchResult); clearLaunchResult() }
AppToastEffect ==
    /\ Mounted
    /\ IsSome(launchResult)
    /\ toast' = launchResult
    /\ launchResult' = None
    /\ UNCHANGED << envVars, phase, ipcState, ipcWiring, ipcPoll, ipcEvent, ipcApi,
                    launchPending, launchEvents, launchRejected, calls, uncaught,
                    histVars,
                    utVars, dragVars, warmupVars, uiVars >>

handleCloseToast ==
    /\ IsSome(toast)
    /\ toast' = None
    /\ UNCHANGED << envVars, phase, ipcState, ipcWiring, ipcPoll, ipcEvent, ipcApi,
                    launchResult, launchPending, launchEvents, launchRejected, calls,
                    uncaught, histVars,
                    utVars, dragVars, warmupVars, uiVars >>

NextLaunch ==
    \/ \E buttonId \in LaunchIds : launchTool(buttonId)
    \/ \E buttonId \in LaunchIds, o \in LaunchOutcomes : LaunchSettle(buttonId, o)
    \/ \E buttonId \in LaunchIds, ok \in BOOLEAN : BackendLaunchResult(buttonId, ok)
    \/ AppToastEffect
    \/ handleCloseToast

NextConfig ==
    \/ Mount
    \/ pollForAuroraView
    \/ Unmount
    \/ \E m \in IPCMembers : BridgeInject(m)
    \/ ApiReadyEvent
    \/ reloadShelfConfig
    \/ \E config \in Payloads : ApiConfigResolve(config)
    \/ ApiConfigReject
    \/ requestConfig
    \/ \E config \in Payloads : BackendConfigResponse(config)
    \/ \E config \in Payloads : BackendConfigUpdated(config)

(***************************************************************************)
(* useUserTools: the effect, its timers, the answer of get_user_tools.     *)
(***************************************************************************)
UserToolsMount ==
    /\ utPhase = "init"
    /\ utPhase' = "mounted"
    /\ windowListeners' = windowListeners \cup {UtApiReadyListener}
    /\ loadTools(TRUE, utTimers)
    /\ UNCHANGED << isLoaded, userTools >>
    /\ UNCHANGED << envVars, phase, ipcState, handlersRef, bridgeHandlers, reloadFn,
                    cleanup, ipcPoll, ipcEvent, ipcApi, launchVars, calls, uncaught,
                    histVars, dragVars, warmupVars, uiVars >>

UserToolsRetryTimer ==
    /\ utTimers > 0
    /\ loadTools(utPhase = "mounted", utTimers - 1)
    /\ UNCHANGED << utPhase, isLoaded, userTools >>
    /\ UNCHANGED << envVars, ipcVars, dragVars, warmupVars, uiVars >>

UserToolsOutcomes == {"success", "failure", "rejects"}

UserToolsSettle(o) ==
    /\ utInflight > 0
    /\ utInflight' = utInflight - 1
    /\ isLoaded' = (isLoaded \/ o = "success")
    /\ userTools' = IF o = "success" /\ utPhase = "mounted"
                    THEN << [id |-> "u1", category |-> "My Tools"] >> ELSE userTools
    /\ utError' = IF o # "success" /\ utPhase = "mounted"
                  THEN (IF o = "failure" THEN "Failed to load tools" ELSE "Error: rejected")
                  ELSE utError
    /\ isLoading' = IF utPhase = "mounted" THEN FALSE ELSE isLoading
    /\ UNCHANGED << utPhase, retryCount, utTimers, callApiLog >>
    /\ UNCHANGED << envVars, ipcVars, dragVars, warmupVars, uiVars >>

UserToolsUnmount ==
    /\ utPhase = "mounted"
    /\ utPhase' = "unmounted"
    /\ windowListeners' = windowListeners \ {UtApiReadyListener}
    /\ UNCHANGED << retryCount, isLoaded, utTimers, utInflight, isLoading, utError,
                    userTools, callApiLog >>
    /\ UNCHANGED << envVars, phase, ipcState, handlersRef, bridgeHandlers, reloadFn,
                    cleanup, ipcPoll, ipcEvent, ipcApi, launchVars, calls, uncaught,
                    histVars, dragVars, warmupVars, uiVars >>

\* deleteTool: callApi('delete_user_tool', { id }); what it throws goes to the caller.
deleteTool ==
    /\ utPhase = "mounted"
    /\ callApi(bridge, "api.delete_user_tool") = "called"
    /\ callApiLog' = callApiLog \cup
          {[method |-> "api.delete_user_tool", present |-> "api.delete_user_tool" \in bridge]}
    /\ UNCHANGED << utPhase, retryCount, isLoaded, utTimers, utInflight, isLoading,
                    utError, userTools >>
    /\ UNCHANGED << envVars, ipcVars, dragVars, warmupVars, uiVars >>

NextUserTools ==
    \/ UserToolsMount
    \/ UserToolsRetryTimer
    \/ \E o \in UserToolsOutcomes : UserToolsSettle(o)
    \/ UserToolsUnmount

(***************************************************************************)
(* useWindowDrag.startDrag                                                 *)
(***************************************************************************)
hasWindowDragAPI(b) == "api" \in b

startDrag ==
    /\ ~dragPending
    /\ hasWindowDragAPI(bridge)
    /\ dragCalls' = dragCalls \cup
          {[method |-> "api.start_drag", present |-> "api.start_drag" \in bridge]}
    /\ IF "api.start_drag" \in bridge
       THEN isDragging' = TRUE /\ dragPending' = TRUE
       ELSE \* start_drag!() on undefined throws: caught, isDragging reset
            isDragging' = FALSE /\ UNCHANGED dragPending
    /\ UNCHANGED << envVars, ipcVars, utVars, warmupVars, uiVars >>

StartDragSettle ==
    /\ dragPending
    /\ dragPending' = FALSE
    /\ isDragging' = FALSE
    /\ UNCHANGED << dragCalls, envVars, ipcVars, utVars, warmupVars, uiVars >>

(***************************************************************************)
(* useWarmupState: the effect registers an anonymous handler with          *)
(* window.auroraview.on at once and again 100 ms later.                    *)
(***************************************************************************)
WarmupListener == "useWarmupState:warmup_state"

\* checkAuroraViewStatus: the handlers registered on the bridge afterwards
checkAuroraViewStatus(n) == IF "on" \in bridge THEN n + 1 ELSE n

WarmupMount ==
    /\ warmupPhase = "init"
    /\ warmupPhase' = "mounted"
    /\ windowListeners' = windowListeners \cup {WarmupListener}
    /\ warmupHandlers' = checkAuroraViewStatus(warmupHandlers)
    /\ warmupTimer' = TRUE
    /\ UNCHANGED << envVars, phase, ipcState, handlersRef, bridgeHandlers, reloadFn,
                    cleanup, ipcPoll, ipcEvent, ipcApi, launchVars, calls, uncaught,
                    histVars, utVars, dragVars, uiVars >>

WarmupTimerFires ==
    /\ warmupTimer
    /\ warmupTimer' = FALSE
    /\ warmupHandlers' = checkAuroraViewStatus(warmupHandlers)
    /\ UNCHANGED << warmupPhase, envVars, ipcVars, utVars, dragVars, uiVars >>

WarmupUnmount ==
    /\ warmupPhase = "mounted"
    /\ warmupPhase' = "unmounted"
    /\ windowListeners' = windowListeners \ {WarmupListener}
    /\ warmupTimer' = FALSE
    /\ UNCHANGED warmupHandlers
    /\ UNCHANGED << envVars, phase, ipcState, handlersRef, bridgeHandlers, reloadFn,
                    cleanup, ipcPoll, ipcEvent, ipcApi, launchVars, calls, uncaught,
                    histVars, utVars, dragVars, uiVars >>

NextWarmup ==
    \/ WarmupMount
    \/ WarmupTimerFires
    \/ WarmupUnmount

(***************************************************************************)
(* Specifications.  The hooks share only the bridge and the window; an     *)
(* action of one hook reads and writes no variable of another, and within  *)
(* useShelfIPC the configuration actions and the launch actions read and   *)
(* write disjoint variables.  Next is the whole system; the other          *)
(* specifications are its projections, each small enough to explore fully. *)
(***************************************************************************)
\* The hook's life cycle and the host injecting bridge members.
NextLife ==
    \/ Mount
    \/ pollForAuroraView
    \/ Unmount
    \/ \E m \in IPCMembers : BridgeInject(m)

Next ==
    \/ NextConfig
    \/ NextLaunch
    \/ NextUserTools
    \/ deleteTool
    \/ startDrag
    \/ StartDragSettle
    \/ NextWarmup
    \/ \E m \in AllMembers : BridgeInject(m)

Spec == InitAll /\ [][Next]_vars

\* useShelfIPC: mode selection, polling, configuration loading.
SpecConfig == Init /\ [][NextConfig]_vars

\* useShelfIPC: launching tools, and the App's toast.
SpecLaunch ==
    Init /\ [][Mount \/ Unmount \/ (\E m \in IPCMembers : BridgeInject(m)) \/ NextLaunch]_vars

\* Listener registration and cleanup of useShelfIPC and useWarmupState.
SpecCleanup == Init /\ [][NextLife \/ requestConfig \/ NextWarmup]_vars

\* Which hooks have started.  useShelfIPC, useUserTools and useWindowDrag
\* share no variable, so a behaviour of several of them is an interleaving of
\* behaviours of each alone; the next two specifications explore the hooks
\* one at a time, under every bridge and every order of host events.
IpcIdle == phase = "init"
UserToolsIdle == utPhase = "init"
DragIdle == dragCalls = {}

\* The readiness polls of useShelfIPC and useUserTools.
PollMembers == IPCMembers \cup {"api.get_user_tools"}
InitPolling ==
    /\ isDev \in BOOLEAN
    /\ bridge \in {b \in SUBSET PollMembers : WellFormedBridge(b)}
    /\ InitHooks
    /\ InitUI
NextPolling ==
    \/ UserToolsIdle /\ Mount
    \/ UserToolsIdle /\ pollForAuroraView
    \/ UserToolsIdle /\ Unmount
    \/ IpcIdle /\ NextUserTools
    \/ \E m \in PollMembers : BridgeInject(m)
    \/ ApiReadyEvent
SpecPolling == InitPolling /\ [][NextPolling]_vars

\* Every place where the front end calls into window.auroraview.api.
CallMembers == {"api", "send_event"} \cup (ApiMethods \ {"api.get_config"})
InitBridgeCalls ==
    /\ isDev \in BOOLEAN
    /\ bridge \in {b \in SUBSET CallMembers : WellFormedBridge(b)}
    /\ InitHooks
    /\ InitUI
NextBridgeCalls ==
    \/ UserToolsIdle /\ DragIdle /\ Mount
    \/ UserToolsIdle /\ DragIdle /\ Unmount
    \/ \E buttonId \in LaunchIds : launchTool(buttonId)
    \/ \E buttonId \in LaunchIds, o \in LaunchOutcomes : LaunchSettle(buttonId, o)
    \/ IpcIdle /\ UserToolsIdle /\ startDrag
    \/ StartDragSettle
    \/ IpcIdle /\ DragIdle /\ UserToolsMount
    \/ UserToolsRetryTimer
    \/ \E o \in UserToolsOutcomes : UserToolsSettle(o)
    \/ deleteTool
    \/ \E m \in CallMembers : BridgeInject(m)
SpecBridgeCalls == InitBridgeCalls /\ [][NextBridgeCalls]_vars

(***************************************************************************)
(* i18n: language detection (i18n/index.ts).  The detector walks            *)
(* detection.order, collects what each source holds, and i18next takes the *)
(* first code whose language part is in supportedLngs, else fallbackLng.   *)
(***************************************************************************)
LngCodes == {"en", "en-US", "zh", "zh-CN", "fr"}
supportedLngs == {"en", "zh"}
DEFAULT_LANGUAGE == "en"

\* load: 'languageOnly' -- the language part of a code
getLanguagePartFromCode(code) ==
    CASE code \in {"en", "en-US"} -> "en"
      [] code \in {"zh", "zh-CN"} -> "zh"
      [] OTHER -> code

isSupportedCode(code) == getLanguagePartFromCode(code) \in supportedLngs

RECURSIVE getBestMatchFromCodes(_)
getBestMatchFromCodes(codes) ==
    IF codes = << >> THEN DEFAULT_LANGUAGE
    ELSE IF isSupportedCode(Head(codes)) THEN Head(codes)
    ELSE getBestMatchFromCodes(Tail(codes))

\* detection.order: ['localStorage', 'querystring', 'navigator']
DetectionOrder_queryFirst(stored, query, nav) == query \o stored \o nav
DetectionOrder(stored, query, nav) == stored \o query \o nav

NavigatorLanguages == {<< "en-US" >>, << "zh-CN" >>, << "fr" >>, << "fr", "zh-CN" >>}
OptionalCodes == {None} \cup {Some(c) : c \in LngCodes}

\* i18n.init(...): detect, set the language, cache it (caches: ['localStorage'])
i18nInit ==
    /\ i18nPhase = "init"
    /\ i18nPhase' = "ready"
    /\ LET l == getBestMatchFromCodes(DetectionOrder(lngStored, lngQuery, lngNavigator))
       IN  /\ language' = l
           /\ detectedLng' = l
           /\ lngStored' = Some(l)
    /\ storedAtInit' = lngStored
    /\ UNCHANGED << lngQuery, lngNavigator >>
    /\ UNCHANGED notI18n

\* setLanguage(lang): changeLanguage, then localStorage.setItem('i18nextLng', lang)
setLanguage(lang) ==
    /\ i18nPhase = "ready"
    /\ language' = lang
    /\ lngStored' = Some(lang)
    /\ UNCHANGED << lngQuery, lngNavigator, i18nPhase, detectedLng, storedAtInit >>
    /\ UNCHANGED notI18n

clearI18nCache ==
    /\ lngStored' = None
    /\ UNCHANGED << lngQuery, lngNavigator, i18nPhase, language, detectedLng, storedAtInit >>
    /\ UNCHANGED notI18n

\* The page is loaded again, with or without a ?lng= parameter.
I18nReload(query) ==
    /\ i18nPhase = "ready"
    /\ i18nPhase' = "init"
    /\ lngQuery' = query
    /\ language' = Null
    /\ detectedLng' = Null
    /\ storedAtInit' = None
    /\ UNCHANGED << lngStored, lngNavigator >>
    /\ UNCHANGED notI18n

InitI18n ==
    /\ HooksIdle
    /\ LocalizedIdle
    /\ SettingsIdle
    /\ FilterIdle
    /\ DialogIdle
    /\ ZoomIdle
    /\ lngQuery \in OptionalCodes
    /\ lngStored \in OptionalCodes
    /\ lngNavigator \in NavigatorLanguages
    /\ i18nPhase = "init"
    /\ language = Null
    /\ detectedLng = Null
    /\ storedAtInit = None

NextI18n ==
    \/ i18nInit
    \/ \E lang \in supportedLngs : setLanguage(lang)
    \/ clearI18nCache
    \/ \E query \in OptionalCodes : I18nReload(query)

SpecI18n == InitI18n /\ [][NextI18n]_vars

(***************************************************************************)
(* useLocalizedTool / useLocalizedTools (hooks/useLocalizedTool.ts).       *)
(***************************************************************************)
\* A translated field: absent, the empty string, or a translation.
Translations(text) == {None, Some(""), Some(text)}

ToolsToLocalize ==
    [name : {"Render"}, description : {"Render the scene"}, category : {"Lighting"},
     name_zh : Translations("zh:Render"),
     description_zh : Translations("zh:Render the scene"),
     category_zh : Translations("zh:Lighting")]

\* What i18n.language may hold: nothing, or a code.
I18nLanguages == {Null, "", "en", "en-US", "zh", "zh-CN", "zh_CN", "fr"}

\* code.split('-')[0]
SplitDash(code) ==
    CASE code = "en-US" -> "en"
      [] code = "zh-CN" -> "zh"
      [] OTHER -> code

\* (i18n.language || 'en').split('-')[0]
NormalisedLang(l) == SplitDash(IF l \in {Null, ""} THEN "en" ELSE l)

\* A value is truthy when it is there and not the empty string.
Truthy(v) == IsSome(v) /\ Get(v) # ""

\* getLocalized(defaultValue, { zh: value_zh }) of useLocalizedTool
getLocalized_noFallback(lang, defaultValue, zhValue) ==
    IF lang = "zh" /\ IsSome(zhValue) THEN Get(zhValue) ELSE defaultValue
getLocalized(lang, defaultValue, zhValue) ==
    LET localized_ == IF lang = "zh" THEN zhValue ELSE None
    IN  IF Truthy(localized_) THEN Get(localized_) ELSE defaultValue

useLocalizedTool(tool, l) ==
    LET lang == NormalisedLang(l)
    IN  [name |-> getLocalized(lang, tool.name, tool.name_zh),
         description |-> getLocalized(lang, tool.description, tool.description_zh),
         category |-> getLocalized(lang, tool.category, tool.category_zh)]

\* tools.map(...) of useLocalizedTools
useLocalizedTools(ts, l) ==
    LET lang == NormalisedLang(l)
    IN  [i \in DOMAIN ts |->
           [name |-> IF lang = "zh" /\ Truthy(ts[i].name_zh)
                     THEN Get(ts[i].name_zh) ELSE ts[i].name,
            description |-> IF lang = "zh" /\ Truthy(ts[i].description_zh)
                            THEN Get(ts[i].description_zh) ELSE ts[i].description,
            category |-> IF lang = "zh" /\ Truthy(ts[i].category_zh)
                         THEN Get(ts[i].category_zh) ELSE ts[i].category]]

\* A component renders the tool: both hooks run with the active language.
LocalizedRender ==
    /\ IsSome(locTool)
    /\ renderedLng # language
    /\ renderedLng' = language
    /\ localized' = useLocalizedTool(Get(locTool), language)
    /\ localizedBatch' = useLocalizedTools(<< Get(locTool) >>, language)
    /\ UNCHANGED << locTool, i18nVars, notLoc >>

\* i18n.changeLanguage(l); the components render again on languageChanged.
LocalizedChangeLanguage(l) ==
    /\ renderedLng = language
    /\ language' = l
    /\ UNCHANGED << lngQuery, lngStored, lngNavigator, i18nPhase, detectedLng, storedAtInit >>
    /\ UNCHANGED << locVars, notLoc >>

\* The tool list changes (a new configuration is shown).
LocalizedToolChanges(tool) ==
    /\ renderedLng = language
    /\ locTool' = Some(tool)
    /\ renderedLng' = "unrendered"
    /\ UNCHANGED << localized, localizedBatch, i18nVars, notLoc >>

InitLocalized ==
    /\ HooksIdle
    /\ SettingsIdle
    /\ FilterIdle
    /\ DialogIdle
    /\ ZoomIdle
    /\ lngQuery = None
    /\ lngStored = None
    /\ lngNavigator = << "en" >>
    /\ i18nPhase = "ready"
    /\ language \in I18nLanguages
    /\ detectedLng = Null
    /\ storedAtInit = None
    /\ locTool \in {Some(tool) : tool \in ToolsToLocalize}
    /\ renderedLng = "unrendered"
    /\ localized = NothingLocalized
    /\ localizedBatch = << >>

NextLocalized ==
    \/ LocalizedRender
    \/ \E l \in I18nLanguages : LocalizedChangeLanguage(l)
    \/ \E tool \in ToolsToLocalize : LocalizedToolChanges(tool)

SpecLocalized == InitLocalized /\ [][NextLocalized]_vars

(***************************************************************************)
(* lib/windowManager.ts: openSettingsSmart.                                *)
(***************************************************************************)
\* window.auroraview.api.create_window is a function
hasNativeWindowAPI(b) == "api.create_window" \in b

\* What window.open does: it is no function, returns null, throws, or opens.
PopupEnvs == {"no_window_open", "blocked", "throws", "opens"}
canOpenPopups(p) == p # "no_window_open"

WindowFailure(message) == [success |-> FALSE, error |-> message, window |-> FALSE]
WindowSuccess(popup) == [success |-> TRUE, error |-> "", window |-> popup]

\* openSettingsPopup
openSettingsPopup(p) ==
    CASE p = "blocked" -> WindowFailure("Popup blocked by browser")
      [] p = "throws" -> WindowFailure("Failed to open popup")
      [] OTHER -> WindowSuccess(TRUE)

\* Whether openSettingsSmart returns the native result at once.
ReturnsNativeResult_never(result) == FALSE
ReturnsNativeResult(result) == result.success

\* Step 2 and 3 of openSettingsSmart: the popup, else the failure result.
TryPopup(p) ==
    IF canOpenPopups(p)
    THEN /\ popupCalls' = popupCalls + 1
         /\ popupTried' = (CASE p = "blocked" -> "blocked"
                             [] p = "throws" -> "threw"
                             [] OTHER -> "opened")
         /\ smartResult' = Some(IF openSettingsPopup(p).success
                                THEN openSettingsPopup(p)
                                ELSE WindowFailure("No window method available"))
    ELSE /\ popupTried' = "not_possible"
         /\ smartResult' = Some(WindowFailure("No window method available"))
         /\ UNCHANGED popupCalls

\* openSettingsSmart up to its await, or to its return when there is no
\* native API.
openSettingsSmart(p) ==
    /\ smartPhase = "idle"
    /\ nativeCalls < MaxOpens
    /\ popupCalls < MaxOpens
    /\ IF hasNativeWindowAPI(bridge)
       THEN /\ smartPhase' = "awaiting_native"
            /\ nativeCalls' = nativeCalls + 1
            /\ nativeTried' = "called"
            /\ popupTried' = "no"
            /\ smartResult' = None
            /\ UNCHANGED popupCalls
       ELSE /\ smartPhase' = "done"
            /\ nativeTried' = "unavailable"
            /\ TryPopup(p)
            /\ UNCHANGED nativeCalls
    /\ UNCHANGED << smartRejected, notSettings >>

\* create_window settles: openSettingsNative returns, openSettingsSmart goes on.
NativeOutcomes == {"resolves", "rejects"}
\* openSettingsNative: its try/catch turns a rejection of create_window into
\* a failure result; `rejects` tells whether the error escapes instead.
openSettingsNative(o) ==
    IF o = "resolves" THEN [result |-> WindowSuccess(FALSE), rejects |-> FALSE]
    ELSE [result |-> WindowFailure("Failed to open native window"), rejects |-> FALSE]

NativeWindowSettles(o, p) ==
    /\ smartPhase = "awaiting_native"
    /\ smartPhase' = "done"
    /\ LET native == openSettingsNative(o)
       IN  IF native.rejects
           THEN /\ smartRejected' = TRUE
                /\ nativeTried' = "failed"
                /\ UNCHANGED << smartResult, popupTried, popupCalls >>
           ELSE /\ UNCHANGED smartRejected
                /\ IF ReturnsNativeResult(native.result)
                   THEN /\ nativeTried' = "ok"
                        /\ smartResult' = Some(native.result)
                        /\ UNCHANGED << popupTried, popupCalls >>
                   ELSE /\ nativeTried' = IF o = "resolves" THEN "ok" ELSE "failed"
                        /\ TryPopup(p)
    /\ UNCHANGED << nativeCalls, notSettings >>

\* The caller has taken the result; the settings button can be used again.
SettingsResultTaken ==
    /\ smartPhase = "done"
    /\ smartPhase' = "idle"
    /\ UNCHANGED << smartResult, smartRejected, nativeTried, popupTried, nativeCalls,
                    popupCalls, notSettings >>

\* The backend binds (or rebinds without) create_window.
SettingsBridgeChanges(b) ==
    /\ smartPhase = "idle"
    /\ bridge # b
    /\ bridge' = b
    /\ UNCHANGED << isDev, apiReadyEvents, reloadCalls, ipcVars, utVars, dragVars,
                    warmupVars, uiVars >>

SettingsBridges == {{}, {"api"}, {"api", "api.create_window"}}

InitSettings ==
    /\ isDev = FALSE
    /\ bridge \in SettingsBridges
    /\ InitHooks
    /\ I18nIdle
    /\ LocalizedIdle
    /\ SettingsIdle
    /\ FilterIdle
    /\ DialogIdle
    /\ ZoomIdle

NextSettings ==
    \/ \E p \in PopupEnvs : openSettingsSmart(p)
    \/ \E o \in NativeOutcomes, p \in PopupEnvs : NativeWindowSettles(o, p)
    \/ SettingsResultTaken
    \/ \E b \in SettingsBridges : SettingsBridgeChanges(b)

SpecSettings == InitSettings /\ [][NextSettings]_vars

(***************************************************************************)
(* App.tsx: the tools the grid displays (filteredTools).                   *)
(***************************************************************************)
\* Text is a sequence of characters.
ToLowerCase(text) ==
    [i \in DOMAIN text |-> CASE text[i] = "M" -> "m"
                             [] text[i] = "H" -> "h"
                             [] OTHER -> text[i]]

\* String.prototype.includes
Includes(text, part) ==
    \E i \in 0..(Len(text) - Len(part)) : SubSeq(text, i + 1, i + Len(part)) = part

\* The buttons a shelf file may declare: hosts absent, empty, or a list.
HostButton(id, name, description, hosts) ==
    [id |-> id, name |-> name, description |-> description, hosts |-> hosts]
HostButtons ==
    << HostButton("any", << "M", "a" >>, None, None),
       HostButton("all", << "a", "x" >>, Some(<< "H" >>), Some(<< >>)),
       HostButton("houdini_only", << "H", "x" >>, None, Some(<< "houdini" >>)),
       HostButton("maya_houdini", << "m", "h" >>, Some(<< "x" >>),
                  Some(<< "maya", "houdini" >>)) >>
Hosts == {"maya", "houdini", "standalone"}
SearchQueries == {<< >>, << "m" >>, << "H" >>, << "x" >>, << "a", "x" >>}

RECURSIVE SelectButtons(_, _)
SelectButtons(buttons, keep) ==
    IF buttons = << >> THEN << >>
    ELSE (IF Head(buttons).id \in keep THEN << Head(buttons) >> ELSE << >>)
             \o SelectButtons(Tail(buttons), keep)

\* tools.filter(matchesSearch); the whole list when the query is empty
MatchesSearch(tool, query) ==
    \/ Includes(ToLowerCase(tool.name), ToLowerCase(query))
    \/ (IsSome(tool.description)
          /\ Includes(ToLowerCase(Get(tool.description)), ToLowerCase(query)))

RECURSIVE FilterTools(_, _)
FilterTools(ts, query) ==
    IF ts = << >> THEN << >>
    ELSE (IF MatchesSearch(Head(ts), query) THEN << Head(ts) >> ELSE << >>)
             \o FilterTools(Tail(ts), query)

FilteredTools(ts, query) ==
    IF query = << >> THEN ts ELSE FilterTools(ts, query)

\* useShelfIPC hands the App a new tool list and host; the App renders.
AppReceivesTools(keep, host) ==
    /\ appTools' = SelectButtons(HostButtons, keep)
    /\ appHost' = host
    /\ filteredTools' = FilteredTools(appTools', searchQuery)
    /\ UNCHANGED << searchQuery, notFilter >>

\* The user types in the search box; the App renders.
SetSearchQuery(query) ==
    /\ searchQuery' = query
    /\ filteredTools' = FilteredTools(appTools, query)
    /\ UNCHANGED << appTools, appHost, notFilter >>

ButtonIds == {HostButtons[i].id : i \in DOMAIN HostButtons}

InitFilter ==
    /\ HooksIdle
    /\ I18nIdle
    /\ LocalizedIdle
    /\ SettingsIdle
    /\ FilterIdle
    /\ DialogIdle
    /\ ZoomIdle

NextFilter ==
    \/ \E keep \in SUBSET ButtonIds, host \in Hosts : AppReceivesTools(keep, host)
    \/ \E query \in SearchQueries : SetSearchQuery(query)

SpecFilter == InitFilter /\ [][NextFilter]_vars

(***************************************************************************)
(* components/CreateToolDialog.tsx: handleSave.                            *)
(***************************************************************************)
\* What can be typed into a field: text over a letter and a blank.
FieldTexts == {<< >>, << " " >>, << "a" >>, << " ", "a" >>, << "a", " " >>,
               << " ", " " >>, << "a", "a" >>}

\* String.prototype.trim
RECURSIVE TrimStart(_)
TrimStart(text) ==
    IF text # << >> /\ Head(text) = " " THEN TrimStart(Tail(text)) ELSE text
RECURSIVE TrimEnd(_)
TrimEnd(text) ==
    IF text # << >> /\ text[Len(text)] = " "
    THEN TrimEnd(SubSeq(text, 1, Len(text) - 1))
    ELSE text
Trim(text) == TrimEnd(TrimStart(text))

\* `!name.trim()` / `!toolPath.trim()`
FieldMissing_untrimmed(text) == text = << >>
FieldMissing(text) == Trim(text) = << >>

SavePayload(name, toolPath) == [name |-> Trim(name), toolPath |-> Trim(toolPath)]

\* The parent shows the dialog.
DialogOpens ==
    /\ ~dlgOpen
    /\ dlgOpen' = TRUE
    /\ UNCHANGED << dlgName, dlgPath, dlgError, dlgSaving, savePending, onSaveCalls,
                    notDialog >>

\* onClose from the backdrop, the X or Cancel.
DialogCloses ==
    /\ dlgOpen
    /\ dlgOpen' = FALSE
    /\ UNCHANGED << dlgName, dlgPath, dlgError, dlgSaving, savePending, onSaveCalls,
                    notDialog >>

\* onChange of the name input
setName(text) ==
    /\ dlgOpen
    /\ dlgName # text
    /\ dlgName' = text
    /\ UNCHANGED << dlgOpen, dlgPath, dlgError, dlgSaving, savePending, onSaveCalls,
                    notDialog >>

\* onChange of the path input
setToolPath(text) ==
    /\ dlgOpen
    /\ dlgPath # text
    /\ dlgPath' = text
    /\ UNCHANGED << dlgOpen, dlgName, dlgError, dlgSaving, savePending, onSaveCalls,
                    notDialog >>

\* handleSave up to `await onSave(...)`; the Save button is disabled while
\* saving.
handleSave ==
    /\ dlgOpen
    /\ ~dlgSaving
    /\ Len(onSaveCalls) < MaxSaves
    /\ IF FieldMissing(dlgName)
       THEN /\ dlgError' = "nameRequired"
            /\ UNCHANGED << dlgSaving, savePending, onSaveCalls >>
       ELSE IF FieldMissing(dlgPath)
       THEN /\ dlgError' = "pathRequired"
            /\ UNCHANGED << dlgSaving, savePending, onSaveCalls >>
       ELSE /\ dlgSaving' = TRUE
            /\ dlgError' = Null
            /\ savePending' = Some(SavePayload(dlgName, dlgPath))
            /\ onSaveCalls' = Append(onSaveCalls, SavePayload(dlgName, dlgPath))
    /\ UNCHANGED << dlgOpen, dlgName, dlgPath, notDialog >>

\* onSave settles: the form is reset and the dialog closed, or the error shown.
OnSaveSettles(ok) ==
    /\ IsSome(savePending)
    /\ savePending' = None
    /\ dlgSaving' = FALSE
    /\ IF ok
       THEN /\ dlgName' = << >>
            /\ dlgPath' = << >>
            /\ dlgOpen' = FALSE
            /\ UNCHANGED dlgError
       ELSE /\ dlgError' = "saveFailed"
            /\ UNCHANGED << dlgName, dlgPath, dlgOpen >>
    /\ UNCHANGED << onSaveCalls, notDialog >>

InitDialog ==
    /\ HooksIdle
    /\ I18nIdle
    /\ LocalizedIdle
    /\ SettingsIdle
    /\ FilterIdle
    /\ DialogIdle
    /\ ZoomIdle

NextDialog ==
    \/ DialogOpens
    \/ DialogCloses
    \/ \E text \in FieldTexts : setName(text)
    \/ \E text \in FieldTexts : setToolPath(text)
    \/ handleSave
    \/ \E ok \in BOOLEAN : OnSaveSettles(ok)

SpecDialog == InitDialog /\ [][NextDialog]_vars

(***************************************************************************)
(* useZoom: screen detection, the optimal zoom, the controls, the record   *)
(* in localStorage.  Zoom levels are integers counted in hundredths, the   *)
(* levels handed to setZoom in thousandths, devicePixelRatio in tenths.    *)
(* JSON.stringify / JSON.parse of {zoom, autoZoomEnabled} keep a finite    *)
(* number and a boolean as they are; localStorage is taken to accept the   *)
(* writes.                                                                 *)
(***************************************************************************)
ZOOM_MIN == 50
ZOOM_MAX == 200
ZOOM_STEP == 10

MathMax(a, b) == IF a >= b THEN a ELSE b
MathMin(a, b) == IF a <= b THEN a ELSE b

detectScreenType(width, height) ==
    LET maxDimension == MathMax(width, height)
    IN  IF maxDimension >= 3840 THEN "4k"
        ELSE IF maxDimension >= 2560 THEN "2k"
        ELSE IF maxDimension >= 1920 THEN "desktop"
        ELSE IF maxDimension >= 1366 THEN "laptop"
        ELSE IF maxDimension < 768 THEN "mobile"
        ELSE "unknown"

\* The switch of calculateOptimalZoom.
baseZoom(screenType) ==
    CASE screenType = "4k" -> 125
      [] screenType = "2k" -> 110
      [] screenType = "desktop" -> 100
      [] screenType = "laptop" -> 95
      [] screenType = "mobile" -> 85
      [] OTHER -> 100

\* baseZoom scaled for HiDPI (in ten-thousandths), clamped, and rounded to
\* hundredths by Math.round(x * 100) / 100.
calculateOptimalZoom(info) ==
    LET scaled == IF info.devicePixelRatio >= 20 THEN baseZoom(info.screenType) * 90
                  ELSE IF info.devicePixelRatio >= 15 THEN baseZoom(info.screenType) * 95
                  ELSE baseZoom(info.screenType) * 100
        clamped == MathMax(ZOOM_MIN * 100, MathMin(ZOOM_MAX * 100, scaled))
    IN  (clamped + 50) \div 100

\* `window.devicePixelRatio || 1`
getScreenInfo(screen) ==
    [width |-> screen.width,
     height |-> screen.height,
     devicePixelRatio |-> IF screen.devicePixelRatio = 0 THEN 10
                          ELSE screen.devicePixelRatio,
     screenType |-> detectScreenType(screen.width, screen.height)]

\* What localStorage holds after saveSettings, and what loadSavedSettings
\* reads back (null when nothing is stored).
saveSettings(z, enabled) == Some([zoom |-> z, autoZoomEnabled |-> enabled])
loadSavedSettings == zoomStorage

\* applyZoom: document.body.style.zoom.  The set_zoom notification to the
\* backend is fire-and-forget and touches neither the hook nor the storage.
applyZoom(z) == bodyZoom' = z

\* The screens a window can be moved to and the levels setZoom is handed
\* (none of them halfway between two hundredths, where the rounding of
\* binary fractions decides).
Screens ==
    { [width |-> w[1], height |-> w[2], devicePixelRatio |-> d] :
        w \in { << 640, 480 >>, << 1366, 768 >>, << 1920, 1080 >>, << 3840, 2160 >> },
        d \in { 0, 10, 20 } }
ZoomLevels == { 300, 1000, 1234, 2500 }
ZoomSteps == { ZOOM_STEP, 25 }

\* The mount effect.
useZoomMount ==
    /\ zoomPhase = "init"
    /\ zoomPhase' = "mounted"
    /\ LET info == getScreenInfo(windowScreen)
           saved == loadSavedSettings
       IN  /\ screenInfo' = Some(info)
           /\ IF IsSome(saved)
              THEN /\ zoom' = Get(saved).zoom
                   /\ autoZoomEnabled' = Get(saved).autoZoomEnabled
                   /\ applyZoom(Get(saved).zoom)
                   /\ UNCHANGED zoomStorage
              ELSE IF autoZoomEnabled
              THEN /\ zoom' = calculateOptimalZoom(info)
                   /\ applyZoom(calculateOptimalZoom(info))
                   /\ zoomStorage' = saveSettings(calculateOptimalZoom(info), TRUE)
                   /\ UNCHANGED autoZoomEnabled
              ELSE UNCHANGED << zoom, autoZoomEnabled, bodyZoom, zoomStorage >>
    /\ UNCHANGED << windowScreen, notZoom >>

\* The window moves to another screen and the resize listener runs.
handleResize(screen) ==
    /\ zoomPhase = "mounted"
    /\ windowScreen' = screen
    /\ screenInfo' = Some(getScreenInfo(screen))
    /\ IF autoZoomEnabled
       THEN /\ zoom' = calculateOptimalZoom(getScreenInfo(screen))
            /\ applyZoom(calculateOptimalZoom(getScreenInfo(screen)))
       ELSE UNCHANGED << zoom, bodyZoom >>
    /\ UNCHANGED << zoomPhase, autoZoomEnabled, zoomStorage, notZoom >>

\* The body of the setZoom callback made by a render in which
\* autoZoomEnabled was `enabled`: clamp, round, set, apply, save.
setZoomBody(level, enabled) ==
    LET clamped == MathMax(ZOOM_MIN * 10, MathMin(ZOOM_MAX * 10, level))
        rounded == (clamped + 5) \div 10
    IN  /\ zoom' = rounded
        /\ applyZoom(rounded)
        /\ zoomStorage' = saveSettings(rounded, enabled)

setZoom(level) ==
    /\ zoomPhase = "mounted"
    /\ setZoomBody(level, autoZoomEnabled)
    /\ UNCHANGED << zoomPhase, autoZoomEnabled, screenInfo, windowScreen, notZoom >>

zoomIn(step) ==
    /\ zoomPhase = "mounted"
    /\ setZoomBody((zoom + step) * 10, autoZoomEnabled)
    /\ UNCHANGED << zoomPhase, autoZoomEnabled, screenInfo, windowScreen, notZoom >>

zoomOut(step) ==
    /\ zoomPhase = "mounted"
    /\ setZoomBody((zoom - step) * 10, autoZoomEnabled)
    /\ UNCHANGED << zoomPhase, autoZoomEnabled, screenInfo, windowScreen, notZoom >>

resetZoom ==
    /\ zoomPhase = "mounted"
    /\ setZoomBody(1000, autoZoomEnabled)
    /\ UNCHANGED << zoomPhase, autoZoomEnabled, screenInfo, windowScreen, notZoom >>

autoZoom ==
    /\ zoomPhase = "mounted"
    /\ IF IsSome(screenInfo)
       THEN setZoomBody(calculateOptimalZoom(Get(screenInfo)) * 10, autoZoomEnabled)
       ELSE UNCHANGED << zoom, bodyZoom, zoomStorage >>
    /\ UNCHANGED << zoomPhase, autoZoomEnabled, screenInfo, windowScreen, notZoom >>

\* toggleAutoZoom saves (zoom, newValue) and, when it switches auto-zoom on,
\* calls the setZoom of its own render, whose autoZoomEnabled is still the
\* old value; that call's saveSettings is the last write.
toggleAutoZoom ==
    /\ zoomPhase = "mounted"
    /\ LET newValue == ~autoZoomEnabled
       IN  /\ autoZoomEnabled' = newValue
           /\ IF newValue /\ IsSome(screenInfo)
              THEN setZoomBody(calculateOptimalZoom(Get(screenInfo)) * 10,
                               autoZoomEnabled)
              ELSE /\ zoomStorage' = saveSettings(zoom, newValue)
                   /\ UNCHANGED << zoom, bodyZoom >>
    /\ UNCHANGED << zoomPhase, screenInfo, windowScreen, notZoom >>

\* The page is reloaded: the hook starts again from its useState defaults,
\* localStorage stays.
ZoomReload ==
    /\ zoomPhase = "mounted"
    /\ zoomPhase' = "init"
    /\ zoom' = 100
    /\ autoZoomEnabled' = TRUE
    /\ screenInfo' = None
    /\ bodyZoom' = 100
    /\ UNCHANGED << zoomStorage, windowScreen, notZoom >>

InitZoom ==
    /\ HooksIdle
    /\ I18nIdle
    /\ LocalizedIdle
    /\ SettingsIdle
    /\ FilterIdle
    /\ DialogIdle
    /\ zoomPhase = "init"
    /\ zoom = 100
    /\ autoZoomEnabled = TRUE
    /\ screenInfo = None
    /\ bodyZoom = 100
    /\ zoomStorage = None
    /\ windowScreen \in Screens

ZoomControl ==
    \/ \E level \in ZoomLevels : setZoom(level)
    \/ \E step \in ZoomSteps : zoomIn(step)
    \/ \E step \in ZoomSteps : zoomOut(step)
    \/ resetZoom
    \/ autoZoom
    \/ toggleAutoZoom

NextZoom ==
    \/ useZoomMount
    \/ \E screen \in Screens : handleResize(screen)
    \/ ZoomControl
    \/ ZoomReload

SpecZoom == InitZoom /\ [][NextZoom]_vars

(***************************************************************************)
(* Properties.                                                             *)
(***************************************************************************)
MountStep == phase = "init" /\ phase' = "mounted"

\* C1: when the hook initialises, API mode is selected whenever
\* api.get_config is a function, also when send_event is there too; event
\* mode is selected exactly when get_config is absent and send_event is a
\* function; in both cases mode is set accordingly and isConnected is true.
C1_ModeSelection ==
    [][MountStep =>
          /\ hasApiMode(bridge) => (mode' = "api" /\ isConnected')
          /\ (~hasApiMode(bridge) /\ hasEventMode(bridge)) => (mode' = "event" /\ isConnected')
          /\ mode' = "event" => (~hasApiMode(bridge) /\ hasEventMode(bridge))
          /\ mode' = "api" => hasApiMode(bridge)]_vars
C1_Witness ==
    /\ phase = "mounted"
    /\ mode = "api"
    /\ isConnected
    /\ attempts = 0
    /\ getConfigCalls = 1
    /\ "send_event" \in bridge

\* C2 (as claimed): when polling ends without the bridge appearing, tools
\* fall back to the static mock list instead of staying empty.
C2_PollThenMock == (error = ErrTimeout) => (tools = TOOLS_DATA)
\* C2 (amended): a development build never polls; a production build polls,
\* and when the poll gives up (after maxAttempts checks) tools stay empty,
\* the hook stays disconnected in mode 'mock', and the timeout error is set.
C2_PollThenError ==
    /\ isDev => (attempts = 0 /\ ~pollActive)
    /\ pollActive => (~isDev /\ tools = << >> /\ attempts < maxAttempts)
    /\ (error = ErrTimeout) =>
          /\ ~isDev
          /\ attempts = maxAttempts
          /\ ~pollActive
          /\ tools = << >>
          /\ mode = "mock"
          /\ ~isConnected
C2_Witness == error = ErrTimeout /\ tools = << >> /\ attempts = maxAttempts

\* C3: tools are the mock list exactly when the hook was mounted in a
\* development build with neither API mode nor event mode available; then
\* mode is 'mock' and isConnected is false.  In a production build tools are
\* never the mock list and no launch result is the fabricated mock success.
IsMockSuccess(r) == IsSome(r) /\ Get(r).success /\ Get(r).message = "[Mock] launched"
C3_MockOnlyInDev ==
    /\ [][MountStep =>
             /\ (tools' = TOOLS_DATA) <=>
                    (isDev /\ ~hasApiMode(bridge) /\ ~hasEventMode(bridge))
             /\ (tools' = TOOLS_DATA) => (mode' = "mock" /\ ~isConnected')]_vars
    /\ [](phase = "init" => tools # TOOLS_DATA)
    /\ [](~isDev => /\ tools # TOOLS_DATA
                    /\ ~IsMockSuccess(launchResult)
                    /\ ~IsMockSuccess(toast))
C3_Witness ==
    /\ isDev
    /\ tools = TOOLS_DATA
    /\ mode = "mock"
    /\ ~isConnected
    /\ launchResult = Some(Success("[Mock] launched", "t1"))

\* C4 (as claimed): neither readiness loop makes more than 50 attempts.
C4_AtMostFiftyAttempts == attempts <= maxAttempts /\ retryCount <= maxRetries
\* C4 (amended): the bridge poll makes at most maxAttempts checks and then
\* stops with the timeout error; useUserTools makes at most maxRetries
\* waiting attempts plus one for every auroraview-api-ready event; once
\* retryCount has reached maxRetries no further timer is scheduled, and a
\* poll that has stopped is not started again.
C4_BoundedRetries ==
    /\ [](/\ attempts <= maxAttempts
          /\ pollActive => attempts < maxAttempts
          /\ (attempts = maxAttempts /\ mode = "mock") =>
                 (~pollActive /\ error = ErrTimeout)
          /\ retryCount <= maxRetries + apiReadyEvents
          /\ (apiReadyEvents = 0 \/ utPhase = "init") => retryCount <= maxRetries)
    /\ [][/\ retryCount >= maxRetries => utTimers' <= utTimers
          /\ (phase # "init" /\ ~pollActive) => ~pollActive']_vars
C4_Witness ==
    /\ retryCount > maxRetries
    /\ utTimers = 0
    /\ apiReadyEvents > 0

\* C5: after a hook unmounts, no handler it registered through
\* window.auroraview.on or window.addEventListener remains registered and
\* window.__reloadShelfConfig is removed.
C5_CleanupIsComplete ==
    /\ phase = "unmounted" =>
          /\ bridgeHandlers = {}
          /\ IpcApiReadyListener \notin windowListeners
          /\ ~reloadFn
    /\ warmupPhase = "unmounted" =>
          /\ warmupHandlers = 0
          /\ WarmupListener \notin windowListeners

\* C6 (as claimed): tools, banner and currentHost are those of the most
\* recently delivered configuration, nothing carried over.
C6_LastEventWins ==
    IsSome(lastCfg) =>
       LET config == Get(lastCfg)
       IN  /\ tools = parseConfigToTools(config)
           /\ banner = (IF IsSome(config.banner) THEN MergeBanner(Get(config.banner))
                        ELSE DEFAULT_BANNER)
           /\ currentHost = (IF IsSome(config.currentHost) THEN Get(config.currentHost)
                             ELSE "standalone")
\* C6 (amended): tools are those of the most recently delivered
\* configuration that has a shelves list; banner and currentHost are those of
\* the most recent such delivery that provided one, the defaults if none did.
C6_LastProvidedWins ==
    /\ IsSome(lastCfg) => tools = parseConfigToTools(Get(lastCfg))
    /\ ~IsSome(lastCfg) => tools \in {<< >>, TOOLS_DATA}
    /\ banner = (IF IsSome(lastBanner) THEN MergeBanner(Get(lastBanner)) ELSE DEFAULT_BANNER)
    /\ currentHost = (IF IsSome(lastHost) THEN Get(lastHost) ELSE "standalone")
C6_Witness ==
    /\ lastCfg = Some(CfgPlain)
    /\ tools = parseConfigToTools(CfgPlain)
    /\ banner = [title |-> "Studio", subtitle |-> "Production Tools & Scripts"]
    /\ currentHost = "maya"

C8_CallsOnlyPresentMethods ==
    \A c \in calls \cup dragCalls \cup callApiLog : c.present

\* C9: a configuration without a shelves list, delivered in any mode, raises
\* no uncaught exception and records an error.
C9_ShapeValidated ==
    /\ ~uncaught
    /\ invalidDelivered => error # Null

\* C10: with a single auroraview-api-ready event and no call of
\* window.__reloadShelfConfig, api.get_config is not called more than once.
C10_LoadsConfigOnce ==
    (apiReadyEvents <= 1 /\ reloadCalls = 0) => getConfigCalls <= 1

\* C11: the language detected at start-up is the first supported one of:
\* the ?lng= query parameter, the saved localStorage preference, the
\* navigator languages, else English; a query parameter wins over a saved
\* preference that differs from it.
C11_QueryParameterFirst ==
    detectedLng # Null =>
        /\ getLanguagePartFromCode(detectedLng) =
               getLanguagePartFromCode(getBestMatchFromCodes(
                   DetectionOrder_queryFirst(storedAtInit, lngQuery, lngNavigator)))
        /\ (IsSome(lngQuery) /\ isSupportedCode(Get(lngQuery))) =>
               getLanguagePartFromCode(detectedLng) = getLanguagePartFromCode(Get(lngQuery))

\* C12: for every tool and every active language, each of name,
\* description and category returned by useLocalizedTool and by
\* useLocalizedTools is the Chinese value when the language normalises to
\* 'zh' and that value is non-empty, and the default value otherwise.
LocalizedFields == {"name", "description", "category"}
ZhField(tool, f) ==
    CASE f = "name" -> tool.name_zh
      [] f = "description" -> tool.description_zh
      [] f = "category" -> tool.category_zh
C12_LocalizedFallback ==
    (IsSome(locTool) /\ renderedLng = language) =>
        LET zh == language \in {"zh", "zh-CN"}
            tool == Get(locTool)
        IN  \A f \in LocalizedFields :
               LET want == IF zh /\ ZhField(tool, f) \notin {None, Some("")}
                           THEN Get(ZhField(tool, f))
                           ELSE tool[f]
               IN  /\ localized[f] = want
                   /\ Len(localizedBatch) = 1
                   /\ localizedBatch[1][f] = want
C12_Witness ==
    /\ renderedLng = language
    /\ language = "zh-CN"
    /\ IsSome(locTool)
    /\ Get(locTool).name_zh = Some("zh:Render")
    /\ Get(locTool).description_zh = Some("")
    /\ Get(locTool).category_zh = None
    /\ localized = [name |-> "zh:Render", description |-> "Render the scene",
                    category |-> "Lighting"]

\* C13: openSettingsSmart never rejects; window.open is invoked only when
\* the native API was unavailable or its create_window call failed; when the
\* native call succeeded its result is returned and no popup is tried; the
\* result 'No window method available' is returned only when neither method
\* succeeded; a finished call always has a result.
NoWindowMethod == Some(WindowFailure("No window method available"))
C13_NativeThenPopup ==
    /\ ~smartRejected
    /\ popupTried \in {"blocked", "threw", "opened"} => nativeTried \in {"unavailable", "failed"}
    /\ nativeTried = "ok" => (popupTried = "no" /\ IsSome(smartResult) /\ Get(smartResult).success)
    /\ smartResult = NoWindowMethod =>
          /\ nativeTried \in {"unavailable", "failed"}
          /\ popupTried \in {"not_possible", "blocked", "threw"}
    /\ smartPhase = "done" => IsSome(smartResult)
    /\ (IsSome(smartResult) /\ ~Get(smartResult).success) => smartResult = NoWindowMethod
C13_Witness ==
    /\ smartPhase = "done"
    /\ nativeTried = "failed"
    /\ popupTried = "opened"
    /\ smartResult = Some(WindowSuccess(TRUE))

\* C14: a displayed tool has no hosts list, an empty one, or one that
\* contains the current host.
C14_HostFilterHonoured ==
    \A i \in DOMAIN filteredTools :
        LET tool == filteredTools[i]
        IN  \/ ~IsSome(tool.hosts)
            \/ Get(tool.hosts) = << >>
            \/ \E j \in DOMAIN Get(tool.hosts) : Get(tool.hosts)[j] = appHost

\* C15: every payload onSave was called with has a non-empty name and a
\* non-empty tool path without surrounding blanks; a handleSave with the name
\* or the path blank after trimming sets a validation error, does not call
\* onSave, and leaves the dialog open with the fields as entered; a
\* handleSave with both present calls onSave with the trimmed values.
Blank(text) == \A i \in DOMAIN text : text[i] = " "
C15_RequiredFields ==
    /\ [](\A i \in DOMAIN onSaveCalls :
             /\ onSaveCalls[i].name # << >>
             /\ onSaveCalls[i].toolPath # << >>
             /\ Head(onSaveCalls[i].name) # " "
             /\ Head(onSaveCalls[i].toolPath) # " "
             /\ onSaveCalls[i].name[Len(onSaveCalls[i].name)] # " "
             /\ onSaveCalls[i].toolPath[Len(onSaveCalls[i].toolPath)] # " ")
    /\ [][handleSave =>
            IF Blank(dlgName) \/ Blank(dlgPath)
            THEN /\ dlgError' \in {"nameRequired", "pathRequired"}
                 /\ onSaveCalls' = onSaveCalls
                 /\ savePending' = savePending
                 /\ dlgOpen'
                 /\ dlgName' = dlgName
                 /\ dlgPath' = dlgPath
            ELSE /\ Len(onSaveCalls') = Len(onSaveCalls) + 1
                 /\ dlgError' = Null]_vars
C15_Witness ==
    /\ dlgOpen
    /\ dlgName = << " ", " " >>
    /\ dlgPath = << "a" >>
    /\ dlgError = "nameRequired"
    /\ onSaveCalls = << [name |-> << "a" >>, toolPath |-> << "a" >>] >>

\* C16: useUserTools never invokes get_user_tools while an earlier invocation
\* is still in flight (and never again after one has succeeded): at most one
\* call is awaiting its answer at any time.
C16_NoDuplicateLoads == utInflight <= 1

\* C17: event mode is the same whether it was found at mount or by the poll:
\* whenever the mounted hook is in event mode, the handlers for
\* config_response, launch_result and config_updated are all registered.
C17_EventModeSameHandlers ==
    (phase = "mounted" /\ mode = "event") => EventNames \subseteq handlersRef

\* C18: the error reflects the most recent load: a step in which
\* api.get_config resolves with a valid configuration on the mounted hook
\* leaves error null, even if an earlier load had failed.
C18_ErrorReflectsLastLoad ==
    [][\A config \in Payloads :
          (Mounted /\ ApiConfigIsValid(config) /\ ApiConfigResolve(config))
              => error' = Null]_vars

\* C19: useUserTools.isLoading stays true until the initial load has
\* concluded: while the mounted hook has neither loaded the tools nor
\* reported an error, and a retry is scheduled or a call is awaiting its
\* answer, isLoading is true.
C19_LoadingUntilConcluded ==
    (utPhase = "mounted" /\ ~isLoaded /\ utError = Null
        /\ (utTimers > 0 \/ utInflight > 0)) => isLoading

\* C20: zoom settings are persisted consistently: after every zoom control
\* operation (setZoom, zoomIn, zoomOut, resetZoom, autoZoom, toggleAutoZoom)
\* the record under 'auroraview-zoom-settings' equals the hook's resulting
\* {zoom, autoZoomEnabled}.
C20_ZoomPersisted ==
    [][ZoomControl =>
          zoomStorage' = Some([zoom |-> zoom', autoZoomEnabled |-> autoZoomEnabled'])]_vars

====
